---- MODULE Spec2Model ----
(***************************************************************************)
(* ampligraph/utils/model_utils.py: saving and restoring an embedding      *)
(* model (save_model, restore_model) and exporting its embeddings for the  *)
(* TensorBoard projector (create_tensorboard_visualizations,               *)
(* create_tensorboard_projector_files, write_metadata_tsv).                *)
(*                                                                         *)
(* Text is a sequence of one-character strings, so that a file's lines are *)
(* computed from its characters.  A Python value that may be None is a     *)
(* sequence of length at most one: <<>> is None, <<v>> is the value v.     *)
(***************************************************************************)
EXTENDS Integers, Sequences, FiniteSets, TLC

VARIABLES
    clock,       \* wall clock (seconds), read by gmtime()
    cwd,         \* working directory: file name -> pickled content
    call,        \* the last save_model / restore_model call and its outcome
    written,     \* history: file name -> the model the last save_model on it was given
    latest,      \* history: the model given to the most recent save_model without a path
    locExists,   \* whether the export directory loc exists
    metadata,    \* loc/metadata.tsv: None, or its characters
    embeddings,  \* loc/embeddings_projector.tsv: None, or its lines
    checkpoint,  \* loc/graph_embedding.ckpt: None, or the saved tensor
    config,      \* loc/projector_config.pbtxt: None, or the metadata path it links
    export       \* the last export call and its outcome

persistVars == <<clock, cwd, call, written, latest>>
exportVars == <<locExists, metadata, embeddings, checkpoint, config, export>>
vars == <<clock, cwd, call, written, latest,
          locExists, metadata, embeddings, checkpoint, config, export>>

\* Bounds of the model.
MaxClock == 1
MaxEnts == 2

None == <<>>
Some(v) == <<v>>

(***************************************************************************)
(* The embedding model object (ampligraph.latent_features.models).         *)
(***************************************************************************)
Letters == <<"a", "b", "c", "d">>
EntName(i) == <<Letters[i]>>

Range(s) == {s[i] : i \in DOMAIN s}
\* The orders in which n dict items are inserted: ascending or descending.
Orders(n) == {[j \in 1..n |-> j], [j \in 1..n |-> n + 1 - j]}

\* A dict is the sequence of its (key, value) items in insertion order.
DictLen(d) == Len(d)
DictKeys(d) == [j \in DOMAIN d |-> d[j][1]]
DictGet(d, key) == d[CHOOSE j \in DOMAIN d : d[j][1] = key][2]

\* ent_to_idx over the first Len(p) entity names: entity i has index i - 1, and
\* p is the order in which the entities were inserted.
EntToIdx(p) == [j \in DOMAIN p |-> <<EntName(p[j]), p[j] - 1>>]
Dicts == UNION {{EntToIdx(p) : p \in Orders(n)} : n \in 1..MaxEnts}
RelToIdx == << <<(<<"y">>), 0>> >>

Classes == {"TransE", "ComplEx"}
Hypers == {[k |-> 1], [k |-> 2]}

\* The embedding matrices: row i of ent_emb is the embedding of the entity of index i - 1.
EntEmb(n, k) == [i \in 1..n |-> [c \in 1..k |-> i + c]]
RelEmb(k) == <<[c \in 1..k |-> c]>>

\* class_(**hyperparams): a model as its constructor leaves it.
NewModel(class_name, hyperparams) ==
    [class_name |-> class_name, all_params |-> hyperparams, is_fitted |-> FALSE,
     ent_to_idx |-> <<>>, rel_to_idx |-> <<>>, trained_model_params |-> <<>>]

\* model.fit(X): the mappings and the trained parameters are set.
Fitted(class_name, hyperparams, d) ==
    [NewModel(class_name, hyperparams) EXCEPT
        !.is_fitted = TRUE, !.ent_to_idx = d, !.rel_to_idx = RelToIdx,
        !.trained_model_params = <<EntEmb(DictLen(d), hyperparams.k), RelEmb(hyperparams.k)>>]

\* model.get_embedding_model_params(obj) and model.restore_model_params(obj).
GetEmbeddingModelParams(model, obj) ==
    obj @@ [model_params |-> model.trained_model_params]
RestoreModelParams(model, in_dict) ==
    [model EXCEPT !.trained_model_params = in_dict.model_params]

RECURSIVE SumAbs(_)
SumAbs(v) ==
    IF v = <<>> THEN 0
    ELSE (IF Head(v) < 0 THEN 0 - Head(v) ELSE Head(v)) + SumAbs(Tail(v))

\* model.predict on the triple (s, "y", o): the translation score -|e_s + r - e_o|.
Predict(model, s, o) ==
    LET ent_emb == model.trained_model_params[1]
        rel_emb == model.trained_model_params[2]
        e_s == ent_emb[DictGet(model.ent_to_idx, s) + 1]
        e_o == ent_emb[DictGet(model.ent_to_idx, o) + 1]
        r == rel_emb[DictGet(model.rel_to_idx, <<"y">>) + 1]
    IN  0 - SumAbs([c \in DOMAIN r |-> e_s[c] + r[c] - e_o[c]])

\* The models save_model is given: of either class, with either hyperparameters,
\* unfitted or fitted on MaxEnts entities inserted in reverse index order.
PersistModels ==
    {NewModel(c, h) : c \in Classes, h \in Hypers}
    \cup {Fitted(c, h, EntToIdx([j \in 1..MaxEnts |-> MaxEnts + 1 - j])) :
            c \in Classes, h \in Hypers}

(***************************************************************************)
(* save_model and restore_model.                                           *)
(***************************************************************************)
SecondsPerMinute == 60

\* strftime("%Y_%m_%d-%H_%M_%S", gmtime()): the clock to the second.
Strftime(t) == ToString(t \div SecondsPerMinute) \o "_" \o ToString(t % SecondsPerMinute)

\* A file name is <<stem, extension>>.  DEFAULT_MODEL_NAMES.format(stamp).
DefaultName(stamp) == <<stamp, "model.pkl">>
HelloWorld == <<"helloworld", "pkl">>
Names == {DefaultName(Strftime(t)) : t \in 0..MaxClock} \cup {HelloWorld}

\* pickle.dump / pickle.load of a Python value (None, or a dict).
PickleDump(value) == [protocol |-> "pickle", value |-> value]
PickleLoad(bytes) == bytes.value

\* open(path, 'wb') and write: the file is created or truncated.
WriteFile(dir, path, bytes) ==
    [n \in DOMAIN dir \cup {path} |-> IF n = path THEN bytes ELSE dir[n]]

\* glob.glob("*.model.pkl"): the matching names, listed in any order.
Glob(dir) == {n \in DOMAIN dir : n[2] = "model.pkl"}
Listings(S) == {l \in [1..Cardinality(S) -> S] : Range(l) = S}

SaveModel(model, model_name_path) ==
    LET obj == GetEmbeddingModelParams(model,
                  [class_name |-> model.class_name,
                   hyperparams |-> model.all_params,
                   is_fitted |-> model.is_fitted,
                   ent_to_idx |-> model.ent_to_idx,
                   rel_to_idx |-> model.rel_to_idx])
        path == IF model_name_path = None
                THEN DefaultName(Strftime(clock))
                ELSE model_name_path[1]
    IN  /\ cwd' = WriteFile(cwd, path, PickleDump(Some(obj)))
        /\ call' = [op |-> "save_model", path |-> model_name_path,
                    out |-> "ok", ret |-> None]
        /\ written' = [written EXCEPT ![path] = Some(model)]
        /\ latest' = IF model_name_path = None THEN Some(model) ELSE latest
        /\ UNCHANGED <<clock, exportVars>>

\* The model rebuilt without its entity and relation mappings.
RestoredModelNoMappings(restored_obj) ==
    LET model == NewModel(restored_obj.class_name, restored_obj.hyperparams)
    IN  RestoreModelParams(
            [model EXCEPT !.is_fitted = restored_obj.is_fitted],
            restored_obj)

\* Lines 132-138: the model rebuilt from the restored dict.
RestoredModel(restored_obj) ==
    LET model == NewModel(restored_obj.class_name, restored_obj.hyperparams)
    IN  RestoreModelParams(
            [model EXCEPT !.is_fitted = restored_obj.is_fitted,
                          !.ent_to_idx = restored_obj.ent_to_idx,
                          !.rel_to_idx = restored_obj.rel_to_idx],
            restored_obj)

\* The same with a missing file taken for an empty one.
RestoreFromQuiet(dir, model_name_path) ==
    IF model_name_path \notin DOMAIN dir
    THEN [out |-> "ok", ret |-> None]
    ELSE LET restored_obj == PickleLoad(dir[model_name_path])
         IN  IF restored_obj # None
             THEN [out |-> "ok", ret |-> Some(RestoredModel(restored_obj[1]))]
             ELSE [out |-> "ok", ret |-> None]

\* Lines 123-141: open the file, load it, rebuild the model.
RestoreFrom(dir, model_name_path) ==
    IF model_name_path \notin DOMAIN dir
    THEN [out |-> "error", ret |-> None]
    ELSE LET restored_obj == PickleLoad(dir[model_name_path])
         IN  IF restored_obj # None
             THEN [out |-> "ok", ret |-> Some(RestoredModel(restored_obj[1]))]
             ELSE [out |-> "ok", ret |-> None]

\* Lines 110-121: the path restore_model reads when none is given.
DefaultLookup(dir, default_models) ==
    IF Len(default_models) = 0
    THEN [out |-> "error", ret |-> None]
    ELSE RestoreFrom(dir, default_models[Len(default_models)])

RestoreModel(model_name_path) ==
    /\ \E default_models \in Listings(Glob(cwd)) :
          LET res == IF model_name_path = None
                     THEN DefaultLookup(cwd, default_models)
                     ELSE RestoreFrom(cwd, model_name_path[1])
          IN  call' = [op |-> "restore_model", path |-> model_name_path,
                       out |-> res.out, ret |-> res.ret]
    /\ UNCHANGED <<clock, cwd, written, latest, exportVars>>

\* gmtime(): the wall clock moves on between calls.
Tick ==
    /\ clock < MaxClock
    /\ clock' = clock + 1
    /\ UNCHANGED <<cwd, call, written, latest, exportVars>>

InitExportIdle ==
    /\ locExists = FALSE
    /\ metadata = None
    /\ embeddings = None
    /\ checkpoint = None
    /\ config = None
    /\ export = [op |-> "none", model |-> None, labels |-> None,
                 write_metadata |-> FALSE, export_tsv_embeddings |-> FALSE,
                 out |-> "ok"]

\* The working directory holds no model, or a file holding a pickled None.
InitPersist ==
    /\ clock = 0
    /\ cwd \in {<<>>, [n \in {HelloWorld} |-> PickleDump(None)]}
    /\ call = [op |-> "none", path |-> None, out |-> "ok", ret |-> None]
    /\ written = [n \in Names |-> None]
    /\ latest = None
    /\ InitExportIdle

NextPersist ==
    \/ \E model \in PersistModels, p \in {None, Some(HelloWorld)} : SaveModel(model, p)
    \/ \E p \in {None} \cup {Some(n) : n \in Names} : RestoreModel(p)
    \/ Tick

SpecPersist == InitPersist /\ [][NextPersist]_vars

(***************************************************************************)
(* write_metadata_tsv and the two export functions.                        *)
(***************************************************************************)

\* Label data: a list of labels (rows of one cell), a pandas DataFrame (named
\* columns, rows of cells), or another container such as a tuple or an array.
Data(type, columns, rows) == [type |-> type, columns |-> columns, rows |-> rows]

RECURSIVE Concat(_)
Concat(texts) ==
    IF texts = <<>> THEN <<>> ELSE Head(texts) \o Concat(Tail(texts))

RECURSIVE Join(_, _)
Join(cells, sep) ==
    IF cells = <<>> THEN <<>>
    ELSE IF Len(cells) = 1 THEN cells[1]
    ELSE cells[1] \o <<sep>> \o Join(Tail(cells), sep)

\* csv.QUOTE_MINIMAL, as DataFrame.to_csv applies it: a field holding the
\* separator, the quote character or a line break is quoted, its quotes doubled.
CsvField(cell) ==
    IF \E i \in DOMAIN cell : cell[i] \in {"\t", "\n", "\r", "\""}
    THEN <<"\"">>
         \o Concat([i \in DOMAIN cell |->
                      IF cell[i] = "\"" THEN <<"\"", "\"">> ELSE <<cell[i]>>])
         \o <<"\"">>
    ELSE cell

\* data.to_csv(metadata_path, sep='\t', index=False): a header, then the rows.
ToCsv(data) ==
    Concat([i \in 1..(Len(data.rows) + 1) |->
        Join([c \in DOMAIN data.columns |->
                 CsvField(IF i = 1 THEN data.columns[c] ELSE data.rows[i - 1][c])],
             "\t") \o <<"\n">>])

\* The rows written to a file opened for appending.
AppendRows(previous, data) ==
    previous \o Concat([i \in DOMAIN data.rows |-> data.rows[i][1] \o <<"\n">>])

\* open(metadata_path, 'w+') and one '%s\n' % row per row: the file's text,
\* given its previous text.
WriteRows(previous, data) ==
    Concat([i \in DOMAIN data.rows |-> data.rows[i][1] \o <<"\n">>])

\* write_metadata_tsv(loc, data) in an existing directory: metadata.tsv
\* afterwards, given metadata.tsv before (None when there is no such file).
MetadataTsv(before, data) ==
    IF data.type = "list"
    THEN Some(WriteRows(IF before = None THEN <<>> ELSE before[1], data))
    ELSE IF data.type = "DataFrame"
    THEN Some(ToCsv(data))
    ELSE before

\* Whether write_metadata_tsv opens a file, which fails in a missing directory.
OpensFile(data) == data.type \in {"list", "DataFrame"}

WriteMetadataTsv(data) ==
    /\ metadata' = IF locExists THEN MetadataTsv(metadata, data) ELSE metadata
    /\ export' = [op |-> "write_metadata_tsv", model |-> None, labels |-> Some(data),
                  write_metadata |-> TRUE, export_tsv_embeddings |-> FALSE,
                  out |-> IF locExists \/ ~OpensFile(data) THEN "ok" ELSE "io_error"]
    /\ UNCHANGED <<locExists, embeddings, checkpoint, config, persistVars>>

\* '%.18e' of a small whole number.
FormatFloat(v) == ToString(v) \o ".000000000000000000e+00"

RECURSIVE JoinStr(_, _)
JoinStr(fields, sep) ==
    IF fields = <<>> THEN ""
    ELSE IF Len(fields) = 1 THEN fields[1]
    ELSE fields[1] \o sep \o JoinStr(Tail(fields), sep)

\* np.savetxt(path, X, delimiter='\t'): one line of text per row of X.
SaveTxt(X) ==
    [i \in DOMAIN X |-> JoinStr([c \in DOMAIN X[i] |-> FormatFloat(X[i][c])], "\t")]

\* list(model.ent_to_idx.keys()): the keys in the dict's iteration order.
ListOfKeys(d) == Data("list", <<>>, [j \in DOMAIN d |-> <<DictKeys(d)[j]>>])

\* The checks with surplus labels let through.
VizCheckLenient(model, labels) ==
    IF ~model.is_fitted THEN "not_fitted"
    ELSE IF labels # None /\ Len(labels[1].rows) < DictLen(model.ent_to_idx)
    THEN "label_mismatch"
    ELSE "ok"

\* Lines 213-223: the checks of create_tensorboard_visualizations.
VizCheck(model, labels) ==
    IF ~model.is_fitted THEN "not_fitted"
    ELSE IF labels # None /\ Len(labels[1].rows) # DictLen(model.ent_to_idx)
    THEN "label_mismatch"
    ELSE "ok"

\* The checks without the one on is_fitted.
ProjCheckUnguarded(model, labels) ==
    IF labels # None /\ Len(labels[1].rows) # DictLen(model.ent_to_idx)
    THEN "label_mismatch"
    ELSE "ok"

\* Lines 289-298: the checks of create_tensorboard_projector_files.
ProjCheck(model, labels) ==
    IF ~model.is_fitted THEN "not_fitted"
    ELSE IF labels # None /\ Len(labels[1].rows) # DictLen(model.ent_to_idx)
    THEN "label_mismatch"
    ELSE "ok"

\* The model's keys whatever labels are given.
KeysAlways(model, labels) == ListOfKeys(model.ent_to_idx)

\* Lines 217-220 and 293-295: the labels given, or the model's keys.

LabelsOrKeys(model, labels) ==
    IF labels = None THEN ListOfKeys(model.ent_to_idx) ELSE labels[1]

MetadataPath == "metadata.tsv"

\* model.trained_model_params[0] raises IndexError on a model without parameters.
HasParams(model) == Len(model.trained_model_params) > 0

CreateTensorboardVisualizations(model, labels, write_metadata, export_tsv_embeddings) ==
    LET checked == VizCheck(model, labels)
        data == LabelsOrKeys(model, labels)
        out == IF checked = "ok" /\ ~HasParams(model) THEN "index_error" ELSE checked
    IN  /\ locExists' = TRUE
        /\ metadata' = IF checked = "ok" /\ write_metadata
                       THEN MetadataTsv(metadata, data)
                       ELSE metadata
        /\ embeddings' = IF out = "ok" /\ export_tsv_embeddings
                         THEN Some(SaveTxt(model.trained_model_params[1]))
                         ELSE embeddings
        /\ checkpoint' = IF out = "ok"
                         THEN Some(model.trained_model_params[1])
                         ELSE checkpoint
        /\ config' = IF out = "ok" THEN Some(MetadataPath) ELSE config
        /\ export' = [op |-> "create_tensorboard_visualizations",
                      model |-> Some(model), labels |-> labels,
                      write_metadata |-> write_metadata,
                      export_tsv_embeddings |-> export_tsv_embeddings,
                      out |-> out]
        /\ UNCHANGED persistVars

\* path is loc/embeddings_projector.tsv, so that os.path.dirname(path) is loc.
CreateTensorboardProjectorFiles(model, labels, write_metadata) ==
    LET checked == ProjCheck(model, labels)
        data == LabelsOrKeys(model, labels)
        out == IF checked # "ok" THEN checked
               ELSE IF ~locExists THEN "io_error"
               ELSE IF ~HasParams(model) THEN "index_error"
               ELSE "ok"
    IN  /\ metadata' = IF checked = "ok" /\ locExists /\ write_metadata
                       THEN MetadataTsv(metadata, data)
                       ELSE metadata
        /\ embeddings' = IF out = "ok"
                         THEN Some(SaveTxt(model.trained_model_params[1]))
                         ELSE embeddings
        /\ export' = [op |-> "create_tensorboard_projector_files",
                      model |-> Some(model), labels |-> labels,
                      write_metadata |-> write_metadata,
                      export_tsv_embeddings |-> TRUE,
                      out |-> out]
        /\ UNCHANGED <<locExists, checkpoint, config, persistVars>>

\* The models the export functions are given: unfitted, or fitted on up to
\* MaxEnts entities whose dict holds them in any insertion order.
ExportModels ==
    {NewModel("TransE", [k |-> 1])}
    \cup {Fitted("TransE", [k |-> 1], d) : d \in Dicts}

\* The labels the export functions are given: none, MaxEnts - 1 or MaxEnts
\* labels xa, xb, .. as a list, or MaxEnts labels as a one-column DataFrame or
\* as a tuple.
LabelRows(n) == [i \in 1..n |-> << <<"x">> \o EntName(i) >>]
ExportLabels ==
    {None,
     Some(Data("list", <<>>, LabelRows(MaxEnts - 1))),
     Some(Data("list", <<>>, LabelRows(MaxEnts))),
     Some(Data("DataFrame", << <<"n">> >>, LabelRows(MaxEnts))),
     Some(Data("tuple", <<>>, LabelRows(MaxEnts)))}

\* The label texts write_metadata_tsv is given: plain, or holding a line break
\* or a tab.
Texts == {<<"a">>, <<"a", "\n", "b">>, <<"a", "\t", "b">>}
RowTexts == UNION {[1..n -> Texts] : n \in 0..MaxEnts}
MetadataInputs ==
    {Data("list", <<>>, [i \in DOMAIN r |-> <<r[i]>>]) : r \in RowTexts}
    \cup {Data("DataFrame", << <<"n">> >>, [i \in DOMAIN r |-> <<r[i]>>]) : r \in RowTexts}
    \cup {Data("DataFrame", << <<"n">>, <<"t">> >>,
               [i \in DOMAIN r |-> <<r[i], <<"b">> >>]) : r \in RowTexts}
    \cup {Data("tuple", <<>>, [i \in DOMAIN r |-> <<r[i]>>]) : r \in RowTexts}

InitPersistIdle ==
    /\ clock = 0
    /\ cwd = <<>>
    /\ call = [op |-> "none", path |-> None, out |-> "ok", ret |-> None]
    /\ written = [n \in Names |-> None]
    /\ latest = None

\* The export directory does not exist yet.
InitExport ==
    /\ InitExportIdle
    /\ InitPersistIdle

NextExport ==
    \/ \E model \in ExportModels, labels \in ExportLabels, wm \in BOOLEAN, tsv \in BOOLEAN :
          CreateTensorboardVisualizations(model, labels, wm, tsv)
    \/ \E model \in ExportModels, labels \in ExportLabels, wm \in BOOLEAN :
          CreateTensorboardProjectorFiles(model, labels, wm)

SpecExport == InitExport /\ [][NextExport]_vars

\* write_metadata_tsv called on an existing directory.
InitMetadata ==
    /\ locExists = TRUE
    /\ metadata = None
    /\ embeddings = None
    /\ checkpoint = None
    /\ config = None
    /\ export = [op |-> "none", model |-> None, labels |-> None,
                 write_metadata |-> FALSE, export_tsv_embeddings |-> FALSE,
                 out |-> "ok"]
    /\ InitPersistIdle

NextMetadata == \E data \in MetadataInputs : WriteMetadataTsv(data)

SpecMetadata == InitMetadata /\ [][NextMetadata]_vars

(***************************************************************************)
(* Claims about save_model and restore_model.                              *)
(***************************************************************************)

\* What a restored model and the model that was saved have in common.
SameModel(r, m) ==
    /\ r.class_name = m.class_name
    /\ r.all_params = m.all_params
    /\ r.is_fitted = m.is_fitted
    /\ r.ent_to_idx = m.ent_to_idx
    /\ r.rel_to_idx = m.rel_to_idx
    /\ r.trained_model_params = m.trained_model_params
    /\ \A i, j \in DOMAIN m.ent_to_idx :
          Predict(r, m.ent_to_idx[i][1], m.ent_to_idx[j][1])
            = Predict(m, m.ent_to_idx[i][1], m.ent_to_idx[j][1])

\* C1: restore_model(p) after save_model(model, p) of a fitted model returns a
\* model of the same class with the same hyperparameters, is_fitted flag,
\* ent_to_idx, rel_to_idx and trained parameters, and so the same predictions.
C1_RoundTrip ==
    (/\ call.op = "restore_model"
     /\ call.path # None
     /\ written[call.path[1]] # None
     /\ written[call.path[1]][1].is_fitted)
    => /\ call.out = "ok"
       /\ call.ret # None
       /\ SameModel(call.ret[1], written[call.path[1]][1])

C1_Witness ==
    /\ call.op = "restore_model"
    /\ call.path = Some(HelloWorld)
    /\ written[HelloWorld] # None
    /\ written[HelloWorld][1].is_fitted
    /\ written[HelloWorld][1].class_name = "ComplEx"
    /\ written[HelloWorld][1].all_params.k = 2
    /\ call.ret = written[HelloWorld]

\* The file restore_model was asked for is missing.
NoFileAtPath ==
    \/ call.path = None /\ Glob(cwd) = {}
    \/ call.path # None /\ call.path[1] \notin DOMAIN cwd

\* The file restore_model was asked for holds no model.
NoModelAtPath ==
    \/ NoFileAtPath
    \/ call.path # None /\ call.path[1] \in DOMAIN cwd
                        /\ PickleLoad(cwd[call.path[1]]) = None

\* C5 (as claimed): restore_model ends in an error when no saved model exists at
\* the path (or no default file exists), and never returns normally without a
\* model.
C5_AbsenceIsError ==
    call.op = "restore_model" =>
        /\ NoModelAtPath => call.out = "error"
        /\ call.out = "ok" => call.ret # None

\* C5 (amended): restore_model ends in an error when no file exists at the path
\* (or no default file exists); it returns normally without a model exactly
\* when the file it reads holds an empty record.
C5_MissingFileIsError ==
    call.op = "restore_model" =>
        /\ NoFileAtPath => call.out = "error"
        /\ (call.out = "ok" /\ call.ret = None)
             <=> (NoModelAtPath /\ ~NoFileAtPath)

C5_Witness ==
    /\ call.op = "restore_model"
    /\ call.path = Some(DefaultName(Strftime(0)))
    /\ Glob(cwd) # {}
    /\ NoFileAtPath
    /\ call.out = "error"

\* C7: restore_model() without a path returns the model written by the most
\* recent save_model call made without a path.
C7_LatestDefault ==
    (call.op = "restore_model" /\ call.path = None /\ latest # None)
    => (call.out = "ok" /\ call.ret = latest)

\* C8: restore_model never changes a file, and a save_model call with default
\* naming never overwrites or alters a file that exists.
C8_Immutable ==
    [][/\ call'.op = "restore_model" => cwd' = cwd
       /\ (call'.op = "save_model" /\ call'.path = None)
            => \A n \in DOMAIN cwd : n \in DOMAIN cwd' /\ cwd'[n] = cwd[n]]_vars

(***************************************************************************)
(* Claims about write_metadata_tsv and the export functions.               *)
(***************************************************************************)

\* The lines of a text file, as a reader splits it at its line breaks.
RECURSIVE SplitLines(_, _)
SplitLines(text, line) ==
    IF text = <<>> THEN (IF line = <<>> THEN <<>> ELSE <<line>>)
    ELSE IF Head(text) = "\n" THEN <<line>> \o SplitLines(Tail(text), <<>>)
    ELSE SplitLines(Tail(text), Append(line, Head(text)))

Lines(text) == SplitLines(text, <<>>)

\* The lines the claim expects for label data: the labels one per line, or,
\* for tabular data, a header and the rows, their cells separated by tabs.
ExpectedLines(data) ==
    IF data.type = "DataFrame"
    THEN <<Join(data.columns, "\t")>>
         \o [i \in DOMAIN data.rows |-> Join(data.rows[i], "\t")]
    ELSE [i \in DOMAIN data.rows |-> data.rows[i][1]]

\* Text without a line break; text without a line break, a tab or a quote.
OneLine(text) == \A i \in DOMAIN text : text[i] \notin {"\n", "\r"}
PlainText(text) == \A i \in DOMAIN text : text[i] \notin {"\n", "\r", "\t", "\""}

\* Every label of a list is one line; every cell and column name of a
\* DataFrame is plain.
PlainData(data) ==
    IF data.type = "DataFrame"
    THEN /\ \A c \in DOMAIN data.columns : PlainText(data.columns[c])
         /\ \A i \in DOMAIN data.rows :
               \A c \in DOMAIN data.rows[i] : PlainText(data.rows[i][c])
    ELSE \A i \in DOMAIN data.rows : OneLine(data.rows[i][1])

ExportOps == {"create_tensorboard_visualizations", "create_tensorboard_projector_files"}

\* C2: an export call on a model that is not fitted fails with the not-fitted
\* error, whatever labels, write_metadata and export_tsv_embeddings are, and
\* writes no metadata, embeddings, checkpoint or config file.
C2_UnfittedGuard ==
    [][(export'.op \in ExportOps /\ ~export'.model[1].is_fitted)
        => /\ export'.out = "not_fitted"
           /\ UNCHANGED <<metadata, embeddings, checkpoint, config>>]_vars

C2_Witness ==
    /\ export.op = "create_tensorboard_projector_files"
    /\ ~export.model[1].is_fitted
    /\ export.labels # None
    /\ export.write_metadata
    /\ export.out = "not_fitted"
    /\ metadata # None
    /\ checkpoint # None

\* C3: an export call on a fitted model with labels whose number differs from
\* the number of entities fails with the label-count error and writes no
\* metadata or embeddings file; with as many labels as entities it does not
\* fail with that error.
C3_LabelCount ==
    [][(export'.op \in ExportOps /\ export'.model[1].is_fitted /\ export'.labels # None)
        => IF Len(export'.labels[1].rows) # DictLen(export'.model[1].ent_to_idx)
           THEN /\ export'.out = "label_mismatch"
                /\ UNCHANGED <<metadata, embeddings>>
           ELSE export'.out # "label_mismatch"]_vars

C3_Witness ==
    /\ export.op = "create_tensorboard_visualizations"
    /\ export.model[1].is_fitted
    /\ export.labels # None
    /\ Len(export.labels[1].rows) > DictLen(export.model[1].ent_to_idx)
    /\ export.out = "label_mismatch"
    /\ metadata # None

\* C4 (as claimed): after write_metadata_tsv(loc, data) with a list or a
\* DataFrame, metadata.tsv has exactly the expected lines: label i on line i,
\* or a header and then the tab-separated rows; nothing of its previous
\* content is left.
C4_MetadataLines ==
    (/\ export.op = "write_metadata_tsv"
     /\ export.labels[1].type \in {"list", "DataFrame"})
    => /\ metadata # None
       /\ Lines(metadata[1]) = ExpectedLines(export.labels[1])

\* C4 (amended): the same, for a list whose labels hold no line break and a
\* DataFrame whose cells and column names hold no line break, tab or quote.
C4_PlainMetadataLines ==
    (/\ export.op = "write_metadata_tsv"
     /\ export.labels[1].type \in {"list", "DataFrame"}
     /\ PlainData(export.labels[1]))
    => /\ metadata # None
       /\ Lines(metadata[1]) = ExpectedLines(export.labels[1])

C4_Witness ==
    /\ export.op = "write_metadata_tsv"
    /\ export.labels[1].type = "list"
    /\ Len(export.labels[1].rows) = MaxEnts
    /\ PlainData(export.labels[1])
    /\ \E i \in DOMAIN export.labels[1].rows : ~PlainText(export.labels[1].rows[i][1])
    /\ Len(Lines(metadata[1])) = MaxEnts

\* C6: an export call that fails on a precondition leaves the file system as it
\* was, the directory loc included.
C6_ChecksBeforeWrites ==
    [][(export'.op \in ExportOps /\ export'.out \in {"not_fitted", "label_mismatch"})
        => UNCHANGED <<locExists, metadata, embeddings, checkpoint, config>>]_vars

\* The key of a dict whose value is idx.
KeyOfIndex(d, idx) == d[CHOOSE j \in DOMAIN d : d[j][2] = idx][1]

\* C9: after a successful export that writes the embeddings, the embeddings
\* file has one row per entity of ent_to_idx, and when metadata.tsv is written
\* from the default labels its line i names the entity of index i - 1.
C9_RowsMatchLabels ==
    (export.op \in ExportOps /\ export.out = "ok" /\ export.export_tsv_embeddings)
    => LET d == export.model[1].ent_to_idx
       IN  /\ embeddings # None
           /\ Len(embeddings[1]) = DictLen(d)
           /\ (export.labels = None /\ export.write_metadata)
                => /\ metadata # None
                   /\ Lines(metadata[1]) = [i \in 1..DictLen(d) |-> KeyOfIndex(d, i - 1)]

\* The labels of the last export call: those given, or the model's keys.
CallData ==
    IF export.labels = None
    THEN ListOfKeys(export.model[1].ent_to_idx)
    ELSE export.labels[1]

\* C10 (as claimed): after every successful create_tensorboard_visualizations
\* call the metadata.tsv that the projector configuration links exists and
\* holds the labels of the call.
C10_MetadataLinked ==
    (export.op = "create_tensorboard_visualizations" /\ export.out = "ok")
    => /\ config = Some(MetadataPath)
       /\ metadata # None
       /\ Lines(metadata[1]) = ExpectedLines(CallData)

\* C10 (amended): the same, for the calls with write_metadata true whose
\* labels are absent, a list or a DataFrame.
C10_WrittenMetadataLinked ==
    (/\ export.op = "create_tensorboard_visualizations"
     /\ export.out = "ok"
     /\ export.write_metadata
     /\ CallData.type \in {"list", "DataFrame"})
    => /\ config = Some(MetadataPath)
       /\ metadata # None
       /\ Lines(metadata[1]) = ExpectedLines(CallData)

C10_Witness ==
    /\ export.op = "create_tensorboard_visualizations"
    /\ export.out = "ok"
    /\ export.write_metadata
    /\ ~export.export_tsv_embeddings
    /\ export.labels # None
    /\ export.labels[1].type = "DataFrame"
    /\ metadata = Some(ToCsv(export.labels[1]))
    /\ config = Some(MetadataPath)

====
